---- MODULE Spec2Model ----
(***************************************************************************)
(* usd-parquet: a Parquet file exposed as a read-only SdfAbstractData.     *)
(*                                                                         *)
(* A Parquet file is a schema (column names and physical types) and a      *)
(* sequence of row groups; every cell of a column carries a definition     *)
(* level (null or present).  ParquetLayerData::Open scans the "path"       *)
(* column into _pathIndex and synthesises the prim hierarchy;              *)
(* ParquetLayerData::Get answers queries and fills _blockCache lazily      *)
(* through _LoadBlock.                                                     *)
(*                                                                         *)
(* Strings of the path column are sequences of lexical tokens ("/", ".",   *)
(* identifiers) so that SdfPath's parsing is computed, not assumed.        *)
(* Decoded cell payloads are abstract data 1, 2, ...; 0 is the             *)
(* value-initialised element of a VtArray.                                 *)
(***************************************************************************)
EXTENDS FiniteSets, Integers, Sequences, TLC

VARIABLES
    file,           \* the Parquet file on disk (never changes)
    phase,          \* "closed" | "open" | "failed" | "crashed"
    layerData,      \* TRUE once ParquetFileFormat::Read called _SetLayerData
    pathIndex,      \* _pathIndex     : SdfPath -> [rowGroup, rowOffset]
    allPaths,       \* _allPaths      : set of SdfPath
    childrenMap,    \* _childrenMap   : SdfPath -> sequence of child names
    propertyNames,  \* _propertyNames : sequence of column names
    blockCache,     \* _blockCache    : <<field, rowGroup>> -> VtValue
    reads,          \* bag of ReadBatch calls issued by _LoadBlock, per <<field, rowGroup>>
    last,           \* the last query answered and what it returned
    pc,             \* per caller: position inside Get / _LoadBlock
    req,            \* per caller: the query being served
    local           \* per caller: the array decoded by its ReadBatch, not yet stored

vars == <<file, phase, layerData, pathIndex, allPaths, childrenMap,
          propertyNames, blockCache, reads, last, pc, req, local>>

(***************************************************************************)
(* Bounds.                                                                 *)
(***************************************************************************)
\* rows of the first row group (every further row group has one row)
MaxRows == 2
\* iterations granted to the upward walk of _BuildPathHierarchy before it
\* is declared non-terminating
MaxWalk == 5

(***************************************************************************)
(* SdfPath.                                                                *)
(***************************************************************************)
\* identifiers, in TfToken (lexicographic) order
Names == <<"A", "B", "DoesNotExist", "mass", "temp">>

NameSet == {Names[i] : i \in 1..Len(Names)}

NameRank(n) == CHOOSE i \in 1..Len(Names) : Names[i] = n

\* the empty (invalid) path, SdfPath()
EmptyPath == [kind |-> "empty", ups |-> 0, prim |-> <<>>, prop |-> <<>>]

\* SdfPath::AbsoluteRootPath(), "/"
AbsoluteRootPath == [kind |-> "abs", ups |-> 0, prim |-> <<>>, prop |-> <<>>]

\* an absolute prim path /a/b, given its element names
PrimPath(elems) == [kind |-> "abs", ups |-> 0, prim |-> elems, prop |-> <<>>]

\* SdfPath::AppendProperty
AppendProperty(p, name) == [p EXCEPT !.prop = <<name>>]

\* name (sep name)* where sep is "/" or, only before the last name, "."
WellFormedElements(r) ==
    /\ Len(r) % 2 = 1
    /\ \A i \in 1..Len(r) :
          IF i % 2 = 1 THEN r[i] \in NameSet
          ELSE r[i] = "/" \/ (r[i] = "." /\ i = Len(r) - 1)

\* the path the elements r denote, r well formed
ElementsPath(kind, r) ==
    LET hasProp == Len(r) >= 3 /\ r[Len(r) - 1] = "."
        nPrim   == IF hasProp THEN (Len(r) - 1) \div 2 ELSE (Len(r) + 1) \div 2
    IN  [kind |-> kind, ups |-> 0,
         prim |-> [i \in 1..nPrim |-> r[2 * i - 1]],
         prop |-> IF hasProp THEN <<r[Len(r)]>> ELSE <<>>]

\* SdfPath(const std::string&): parse; anything ill-formed is the empty path
SdfPath(str) ==
    IF str = <<>> THEN EmptyPath
    ELSE IF str = <<"/">> THEN AbsoluteRootPath
    ELSE IF str[1] = "/"
         THEN IF WellFormedElements(Tail(str))
              THEN ElementsPath("abs", Tail(str)) ELSE EmptyPath
    ELSE IF WellFormedElements(str)
         THEN ElementsPath("rel", str) ELSE EmptyPath

IsAbsolutePath(p) == p.kind = "abs"

IsPropertyPath(p) == p.kind # "empty" /\ p.prop # <<>>

GetPrimPath(p) == [p EXCEPT !.prop = <<>>]

\* SdfPath::GetParentPath: a relative path without elements climbs with ".."
GetParentPath(p) ==
    IF p.kind = "empty" THEN EmptyPath
    ELSE IF p.prop # <<>> THEN [p EXCEPT !.prop = <<>>]
    ELSE IF p.prim # <<>> THEN [p EXCEPT !.prim = SubSeq(p.prim, 1, Len(p.prim) - 1)]
    ELSE IF p.kind = "abs" THEN EmptyPath
    ELSE [p EXCEPT !.ups = p.ups + 1]

\* SdfPath::GetNameToken
GetNameToken(p) ==
    IF p.prop # <<>> THEN p.prop[1]
    ELSE IF p.prim # <<>> THEN p.prim[Len(p.prim)]
    ELSE IF p.kind = "rel" THEN (IF p.ups = 0 THEN "." ELSE "..")
    ELSE ""

\* lexicographic order on sequences of names
RECURSIVE NamesLess(_, _)
NamesLess(a, b) ==
    IF b = <<>> THEN FALSE
    ELSE IF a = <<>> THEN TRUE
    ELSE IF a[1] # b[1] THEN NameRank(a[1]) < NameRank(b[1])
    ELSE NamesLess(Tail(a), Tail(b))

\* SdfPath::operator<, the key order of std::map<SdfPath, ...>: absolute
\* before relative, then the prim parts, then the property parts
PathLess(p, q) ==
    IF p.kind # q.kind THEN p.kind = "abs"
    ELSE IF p.ups # q.ups THEN p.ups < q.ups
    ELSE IF p.prim # q.prim THEN NamesLess(p.prim, q.prim)
    ELSE NamesLess(p.prop, q.prop)

\* the keys in descending order, as a std::map ordered by std::greater yields them
RECURSIVE MapOrderDescending(_)
MapOrderDescending(S) ==
    IF S = {} THEN <<>>
    ELSE LET m == CHOOSE x \in S : \A y \in S \ {x} : PathLess(y, x)
         IN  <<m>> \o MapOrderDescending(S \ {m})

\* the keys of a std::map<SdfPath, ...> in iteration order
RECURSIVE MapOrder(_)
MapOrder(S) ==
    IF S = {} THEN <<>>
    ELSE LET m == CHOOSE x \in S : \A y \in S \ {x} : PathLess(x, y)
         IN  <<m>> \o MapOrder(S \ {m})

(***************************************************************************)
(* The Parquet file and its reader.                                        *)
(***************************************************************************)
\* row groups of a file, numbered as parquet numbers them
RowGroups == {0, 1}

\* FileMetaData::RowGroup(rg)->num_rows()
NumRows(f, rg) == f.numRows[rg + 1]

\* FileMetaData::num_row_groups()
NumRowGroups(f) == Len(f.numRows)

\* the cells of column colIdx in row group rg, one per row
ColumnChunk(f, colIdx, rg) == f.columns[colIdx][rg + 1]

\* TypedColumnReader::ReadBatch over a whole column chunk: the values of the
\* non-null cells, packed in row order; their number is valuesRead
ReadBatch(f, colIdx, rg) ==
    LET present == SelectSeq(ColumnChunk(f, colIdx, rg), LAMBDA c : ~c.null)
    IN  [i \in 1..Len(present) |-> present[i].v]

SupportedTypes == {"FLOAT", "DOUBLE", "INT32", "INT64", "BOOLEAN", "BYTE_ARRAY"}

PhysicalTypes == SupportedTypes \cup {"INT96"}

\* element type of the VtArray _LoadBlock decodes a physical type into
ElementType(t) ==
    CASE t = "FLOAT"      -> "float"
      [] t = "DOUBLE"     -> "double"
      [] t = "INT32"      -> "int"
      [] t = "INT64"      -> "int64"
      [] t = "BOOLEAN"    -> "bool"
      [] t = "BYTE_ARRAY" -> "string"
      [] OTHER            -> "none"

(***************************************************************************)
(* VtValue.                                                                *)
(***************************************************************************)
\* VtValue(): holds nothing, IsEmpty()
EmptyValue == [type |-> "empty"]

\* VtValue(VtArray<T>)
ArrayValue(elem, data) == [type |-> "VtArray", elem |-> elem, data |-> data]

\* VtValue(T) of one decoded element
ScalarValue(elem, v) == [type |-> "scalar", elem |-> elem, num |-> v]

\* VtValue(VtTokenArray)
TokenArrayValue(toks) == [type |-> "VtTokenArray", toks |-> toks]

\* VtValue(TfToken), and the enum values held as VtValue
TokenValue(kind, tok) == [type |-> kind, tok |-> tok]

IsEmpty(v) == v.type = "empty"

(***************************************************************************)
(* ParquetLayerData::Open and _BuildPathHierarchy.                         *)
(***************************************************************************)
\* std::map::operator[]= : insert or overwrite
MapPut(m, k, v) == [x \in DOMAIN m \cup {k} |-> IF x = k THEN v ELSE m[x]]

EmptyMap == [x \in {} |-> 0]

SeqRange(s) == {s[i] : i \in 1..Len(s)}

\* schema scan of Open: every column but "path", in schema order
PropertyNamesOf(f) ==
    LET others == SelectSeq(f.schema, LAMBDA c : c.name # "path")
    IN  [i \in 1..Len(others) |-> others[i].name]

\* schema scan of Open: the loop keeps the last column named "path"; 0 for none
PathColIdx(f) ==
    LET hits == {i \in 1..Len(f.schema) : f.schema[i].name = "path"}
    IN  IF hits = {} THEN 0 ELSE CHOOSE i \in hits : \A j \in hits : j <= i

\* the row filter of Open's scan
Accepts(path) == IsAbsolutePath(path)

\* for (i = 0; i < valuesRead; ++i): index the values read from one row group
RECURSIVE IndexValues(_, _, _, _)
IndexValues(index, values, rg, i) ==
    IF i >= Len(values) THEN index
    ELSE LET path == SdfPath(values[i + 1])
         IN  IndexValues(IF Accepts(path)
                         THEN MapPut(index, path, [rowGroup |-> rg, rowOffset |-> i])
                         ELSE index,
                         values, rg, i + 1)

\* for (rg = 0; rg < numRowGroups; ++rg): a decode exception leaves the
\* index as it stood
RECURSIVE ScanRowGroups(_, _, _, _)
ScanRowGroups(index, f, pathColIdx, rg) ==
    IF rg >= NumRowGroups(f) THEN [ok |-> TRUE, index |-> index]
    ELSE IF f.corruptAt = rg THEN [ok |-> FALSE, index |-> index]
    ELSE ScanRowGroups(IndexValues(index, ReadBatch(f, pathColIdx, rg), rg, 0),
                       f, pathColIdx, rg + 1)

\* a walk that registers children but forgets _allPaths.insert(parent)
RECURSIVE WalkUpNoInsert(_, _, _)
WalkUpNoInsert(st, current, fuel) ==
    IF current = AbsoluteRootPath THEN st
    ELSE IF fuel = 0 THEN [st EXCEPT !.terminated = FALSE]
    ELSE LET parent    == GetParentPath(current)
             childName == GetNameToken(current)
             children  == IF parent \in DOMAIN st.children
                          THEN st.children[parent] ELSE <<>>
             pushed    == IF childName \in SeqRange(children)
                          THEN children ELSE Append(children, childName)
         IN  WalkUpNoInsert([st EXCEPT !.children =
                                MapPut(st.children, parent, pushed)],
                            parent, fuel - 1)

\* while (current != AbsoluteRootPath): st = [all, children, terminated]
RECURSIVE WalkUp(_, _, _)
WalkUp(st, current, fuel) ==
    IF current = AbsoluteRootPath THEN st
    ELSE IF fuel = 0 THEN [st EXCEPT !.terminated = FALSE]
    ELSE LET parent    == GetParentPath(current)
             childName == GetNameToken(current)
             children  == IF parent \in DOMAIN st.children
                          THEN st.children[parent] ELSE <<>>
             pushed    == IF childName \in SeqRange(children)
                          THEN children ELSE Append(children, childName)
         IN  WalkUp([all        |-> IF parent # AbsoluteRootPath
                                    THEN st.all \cup {parent} ELSE st.all,
                     children   |-> MapPut(st.children, parent, pushed),
                     terminated |-> st.terminated],
                    parent, fuel - 1)

\* for (const auto& pair : _pathIndex), in map order
RECURSIVE BuildFrom(_, _)
BuildFrom(st, paths) ==
    IF paths = <<>> THEN st
    ELSE BuildFrom(WalkUp([st EXCEPT !.all = st.all \cup {paths[1]}],
                          paths[1], MaxWalk),
                   Tail(paths))

_BuildPathHierarchy(index) ==
    BuildFrom([all |-> {}, children |-> EmptyMap, terminated |-> TRUE],
              MapOrder(DOMAIN index))

\* the object as constructed
Constructed ==
    [ok |-> FALSE, pathIndex |-> EmptyMap, propertyNames |-> <<>>,
     allPaths |-> {}, childrenMap |-> EmptyMap, terminated |-> TRUE]

\* ParquetLayerData::Open: the object's fields when it returns, and its result
Open(f) ==
    IF ~f.exists THEN Constructed
    ELSE IF PathColIdx(f) = 0
         THEN [Constructed EXCEPT !.propertyNames = PropertyNamesOf(f)]
    ELSE LET scan == ScanRowGroups(EmptyMap, f, PathColIdx(f), 0)
             h    == _BuildPathHierarchy(scan.index)
         IN  IF ~scan.ok
             THEN [Constructed EXCEPT !.propertyNames = PropertyNamesOf(f),
                                      !.pathIndex = scan.index]
             ELSE [ok |-> TRUE, pathIndex |-> scan.index,
                   propertyNames |-> PropertyNamesOf(f),
                   allPaths |-> h.all, childrenMap |-> h.children,
                   terminated |-> h.terminated]

(***************************************************************************)
(* ParquetLayerData::_LoadBlock.                                           *)
(***************************************************************************)
\* the schema search of _LoadBlock: first column named field; 0 for none
ColIdxOf(f, field) ==
    LET hits == {i \in 1..Len(f.schema) : f.schema[i].name = field}
    IN  IF hits = {} THEN 0 ELSE CHOOSE i \in hits : \A j \in hits : i <= j

\* whether _LoadBlock has a branch that reads (field, rowGroup)
Readable(f, field) ==
    /\ ColIdxOf(f, field) # 0
    /\ f.schema[ColIdxOf(f, field)].type \in SupportedTypes

\* the array one branch of _LoadBlock decodes: a string column gets
\* valuesRead elements, every other type rowsInGroup value-initialised
\* elements of which ReadBatch overwrites the first valuesRead
DecodeBlock(f, field, rowGroup) ==
    LET colIdx      == ColIdxOf(f, field)
        t           == f.schema[colIdx].type
        rowsInGroup == NumRows(f, rowGroup)
        values      == ReadBatch(f, colIdx, rowGroup)
    IN  IF t = "BYTE_ARRAY"
        THEN ArrayValue(ElementType(t), values)
        ELSE ArrayValue(ElementType(t),
                        [i \in 1..rowsInGroup |->
                            IF i <= Len(values) THEN values[i] ELSE 0])

\* if (_blockCache[field].count(rowGroup)) return;
Cached(cache, field, rowGroup) == <<field, rowGroup>> \in DOMAIN cache

ReadCount(rds, field, rowGroup) ==
    IF <<field, rowGroup>> \in DOMAIN rds THEN rds[<<field, rowGroup>>] ELSE 0

\* a _LoadBlock without the early return on a cached pair
_LoadBlockUnchecked(f, cache, rds, field, rowGroup) ==
    IF ~Readable(f, field) THEN [cache |-> cache, reads |-> rds]
    ELSE [cache |-> MapPut(cache, <<field, rowGroup>>,
                           DecodeBlock(f, field, rowGroup)),
          reads |-> MapPut(rds, <<field, rowGroup>>,
                           ReadCount(rds, field, rowGroup) + 1)]

\* _LoadBlock run alone: the cache and the ReadBatch count it leaves
_LoadBlock(f, cache, rds, field, rowGroup) ==
    IF Cached(cache, field, rowGroup) THEN [cache |-> cache, reads |-> rds]
    ELSE IF ~Readable(f, field) THEN [cache |-> cache, reads |-> rds]
    ELSE [cache |-> MapPut(cache, <<field, rowGroup>>,
                           DecodeBlock(f, field, rowGroup)),
          reads |-> MapPut(rds, <<field, rowGroup>>,
                           ReadCount(rds, field, rowGroup) + 1)]

\* const VtValue& block = _blockCache[propName][loc.rowGroup];
\* operator[] default-constructs a missing entry
TouchBlock(cache, field, rowGroup) ==
    IF Cached(cache, field, rowGroup) THEN cache
    ELSE MapPut(cache, <<field, rowGroup>>, EmptyValue)

(***************************************************************************)
(* Queries.                                                                *)
(***************************************************************************)
\* field selectors a host passes to Get
Fields == {"primChildren", "properties", "specifier", "default", "typeName",
           "variability", "custom", "documentation"}

\* what a read past the end of an array may yield
Garbage == 0..(MaxRows + 1)

HasProperty(names, propName) == propName \in SeqRange(names)

\* ParquetLayerData::HasSpec
HasSpec(path) ==
    IF path = AbsoluteRootPath THEN TRUE
    ELSE IF IsPropertyPath(path)
         THEN /\ GetPrimPath(path) \in DOMAIN pathIndex
              /\ HasProperty(propertyNames, GetNameToken(path))
    ELSE path \in allPaths

\* ParquetLayerData::GetSpecType
GetSpecType(path) ==
    IF path = AbsoluteRootPath THEN "SdfSpecTypePseudoRoot"
    ELSE IF IsPropertyPath(path)
         THEN IF /\ GetPrimPath(path) \in DOMAIN pathIndex
                 /\ HasProperty(propertyNames, GetNameToken(path))
              THEN "SdfSpecTypeAttribute" ELSE "SdfSpecTypeUnknown"
    ELSE IF path \in allPaths THEN "SdfSpecTypePrim"
    ELSE "SdfSpecTypeUnknown"

\* a Get that touches neither the cache nor the reader
Returns(v) == {[ret |-> v, cache |-> blockCache, reads |-> reads, crashed |-> FALSE]}

\* block[loc.rowOffset] on the array a block holds: in range it is the
\* element; past the end the read is undefined (any value, or a crash)
IndexBlock(block, rowOffset, cache, rds) ==
    IF rowOffset < Len(block.data)
    THEN {[ret |-> ScalarValue(block.elem, block.data[rowOffset + 1]),
           cache |-> cache, reads |-> rds, crashed |-> FALSE]}
    ELSE {[ret |-> ScalarValue(block.elem, g),
           cache |-> cache, reads |-> rds, crashed |-> FALSE] : g \in Garbage}
         \cup {[ret |-> EmptyValue, cache |-> cache, reads |-> rds,
                crashed |-> TRUE]}

\* const VtValue& block = _blockCache[propName][loc.rowGroup] and the
\* IsHolding chain on it: the value for Default, the type name for TypeName,
\* nothing when the block holds no array
ReadFromBlock(field, propName, loc, cached, rds) ==
    LET cache == TouchBlock(cached, propName, loc.rowGroup)
        block == cache[<<propName, loc.rowGroup>>]
    IN  IF block.type # "VtArray"
        THEN {[ret |-> EmptyValue, cache |-> cache, reads |-> rds,
               crashed |-> FALSE]}
        ELSE IF field = "default"
             THEN IndexBlock(block, loc.rowOffset, cache, rds)
        ELSE {[ret |-> TokenValue("TfToken", block.elem), cache |-> cache,
               reads |-> rds, crashed |-> FALSE]}

\* a Get that loads the field's first row group instead of the node's
GetFromFirstBlock(field, propName, loc) ==
    LET ld == _LoadBlock(file, blockCache, reads, propName, 0)
    IN  ReadFromBlock(field, propName, loc, ld.cache, ld.reads)

\* the Default and TypeName branches of Get on a property of a data prim
GetFromBlock(field, propName, loc) ==
    LET ld == _LoadBlock(file, blockCache, reads, propName, loc.rowGroup)
    IN  ReadFromBlock(field, propName, loc, ld.cache, ld.reads)

\* ParquetLayerData::Get: the outcomes of one call
Get(path, field) ==
    IF field = "primChildren"
    THEN Returns(TokenArrayValue(IF path \in DOMAIN childrenMap
                                 THEN childrenMap[path] ELSE <<>>))
    ELSE IF field = "properties" /\ path \in DOMAIN pathIndex
         THEN Returns(TokenArrayValue(propertyNames))
    ELSE IF field = "specifier" /\ path \in allPaths
         THEN Returns(TokenValue("SdfSpecifier", "over"))
    ELSE IF /\ IsPropertyPath(path)
            /\ GetPrimPath(path) \in DOMAIN pathIndex
            /\ HasProperty(propertyNames, GetNameToken(path))
         THEN CASE field \in {"default", "typeName"} ->
                     GetFromBlock(field, GetNameToken(path),
                                  pathIndex[GetPrimPath(path)])
                [] field = "variability" ->
                     Returns(TokenValue("SdfVariability", "varying"))
                [] field = "custom" -> Returns(ScalarValue("bool", 0))
                [] OTHER -> Returns(EmptyValue)
    ELSE Returns(EmptyValue)

\* a Has that touches neither the cache nor the reader: its result and
\* what *value receives (nothing when it is left alone)
Answers(has, v) ==
    {[has |-> has, ret |-> v, cache |-> blockCache, reads |-> reads,
      crashed |-> FALSE]}

\* the TypeName branch of Has: _LoadBlock, the block, and the
\* SdfValueTypeName of the array it holds; true whatever the block holds
HasTypeName(propName, loc) ==
    LET ld    == _LoadBlock(file, blockCache, reads, propName, loc.rowGroup)
        cache == TouchBlock(ld.cache, propName, loc.rowGroup)
        block == cache[<<propName, loc.rowGroup>>]
    IN  {[has |-> TRUE,
          ret |-> IF block.type = "VtArray"
                  THEN TokenValue("SdfValueTypeName", block.elem) ELSE EmptyValue,
          cache |-> cache, reads |-> ld.reads, crashed |-> FALSE]}

\* ParquetLayerData::Has(path, field, VtValue*): the outcomes of one call
Has(path, field) ==
    IF IsPropertyPath(path)
    THEN IF /\ GetPrimPath(path) \in DOMAIN pathIndex
            /\ HasProperty(propertyNames, GetNameToken(path))
         THEN CASE field = "default" ->
                     {[has |-> ~IsEmpty(o.ret), ret |-> o.ret, cache |-> o.cache,
                       reads |-> o.reads, crashed |-> o.crashed] :
                        o \in Get(path, field)}
                [] field = "typeName" ->
                     HasTypeName(GetNameToken(path), pathIndex[GetPrimPath(path)])
                [] field = "variability" ->
                     Answers(TRUE, TokenValue("SdfVariability", "varying"))
                [] field = "custom" -> Answers(TRUE, ScalarValue("bool", 0))
                [] OTHER -> Answers(FALSE, EmptyValue)
         ELSE Answers(FALSE, EmptyValue)
    ELSE IF /\ field = "primChildren"
            /\ (path \in DOMAIN childrenMap \/ path = AbsoluteRootPath)
         THEN {[has |-> TRUE, ret |-> o.ret, cache |-> o.cache, reads |-> o.reads,
                crashed |-> o.crashed] : o \in Get(path, field)}
    ELSE IF field = "properties" /\ path \in DOMAIN pathIndex
         THEN Answers(TRUE, TokenArrayValue(propertyNames))
    ELSE IF field = "specifier" /\ path \in allPaths
         THEN Answers(TRUE, TokenValue("SdfSpecifier", "over"))
    ELSE Answers(FALSE, EmptyValue)

\* ParquetLayerData::List: the field selectors a path answers
List(path) ==
    IF IsPropertyPath(path) THEN <<"default", "typeName", "variability", "custom">>
    ELSE (IF path \in DOMAIN childrenMap \/ path = AbsoluteRootPath
          THEN <<"primChildren">> ELSE <<>>)
         \o (IF path \in allPaths THEN <<"specifier">> ELSE <<>>)
         \o (IF path \in DOMAIN pathIndex /\ propertyNames # <<>>
             THEN <<"properties">> ELSE <<>>)

(***************************************************************************)
(* Files the store is opened on.                                           *)
(***************************************************************************)
\* rows per row group
RowCounts == [i \in 1..Cardinality(RowGroups) |-> IF i = 1 THEN MaxRows ELSE 1]

\* the rows of a file: <<row group (from 1), row (from 1)>>
Rows == {x \in (1..Len(RowCounts)) \X (1..MaxRows) : x[2] <= RowCounts[x[1]]}

\* the datum stored at row r (from 1) of row group rg: distinct per row
RowPayload(rg, r) == rg * MaxRows + r

NullCell(v) == [null |-> TRUE, v |-> v]

Cell(v) == [null |-> FALSE, v |-> v]

\* a column without nulls
FullColumn == [i \in 1..Len(RowCounts) |->
                  [r \in 1..RowCounts[i] |-> Cell(RowPayload(i - 1, r))]]

\* columns that are null at some rows
SparseColumns ==
    {[i \in 1..Len(RowCounts) |->
         [r \in 1..RowCounts[i] |->
             IF <<i, r>> \in nulls THEN NullCell(0) ELSE Cell(RowPayload(i - 1, r))]] :
       nulls \in SUBSET Rows}

\* strings a path column may hold: empty, relative, the root, prims, a property
PathStrings ==
    {<<>>, <<"A">>, <<"/">>, <<"/", "A">>, <<"/", "A", "/", "B">>, <<"/", "B">>,
     <<"/", "A", ".", "temp">>}

PathCells == {Cell(str) : str \in PathStrings} \cup {NullCell(<<>>)}

\* path columns over the given cells
PathColumns(cells) ==
    {[i \in 1..Len(RowCounts) |-> [r \in 1..RowCounts[i] |-> c[<<i, r>>]]] :
       c \in [Rows -> cells]}

Column(name, type) == [name |-> name, type |-> type]

\* files for the structural queries: any path column, full field columns,
\* a decode failure in any row group, a missing file, a missing path column
StructFiles ==
    {[exists |-> TRUE, corruptAt |-> c, numRows |-> RowCounts,
      schema |-> <<Column("temp", "FLOAT"), Column("path", "BYTE_ARRAY"),
                   Column("mass", "INT32")>>,
      columns |-> <<FullColumn, p, FullColumn>>] :
       c \in {-1} \cup RowGroups, p \in PathColumns(PathCells)}
    \cup
    {[exists |-> e, corruptAt |-> -1, numRows |-> RowCounts,
      schema |-> <<Column("temp", "FLOAT"), Column("mass", "INT32")>>,
      columns |-> <<FullColumn, FullColumn>>] : e \in BOOLEAN}

\* files for the value queries: prims /A and /B (or null) in the path column,
\* a field column of any physical type with nulls anywhere
ValueFiles ==
    {[exists |-> TRUE, corruptAt |-> -1, numRows |-> RowCounts,
      schema |-> <<Column("path", "BYTE_ARRAY"), Column("temp", t),
                   Column("mass", "INT32")>>,
      columns |-> <<p, v, FullColumn>>] :
       t \in PhysicalTypes, v \in SparseColumns,
       p \in PathColumns({Cell(<<"/", "A">>), Cell(<<"/", "B">>), NullCell(<<>>)})}

\* files for concurrent callers: /A and /B in the first row group
ConcFiles ==
    {[exists |-> TRUE, corruptAt |-> -1, numRows |-> RowCounts,
      schema |-> <<Column("path", "BYTE_ARRAY"), Column("temp", t)>>,
      columns |-> <<[i \in 1..Len(RowCounts) |->
                        [r \in 1..RowCounts[i] |->
                            Cell(IF r = 1 THEN <<"/", "A">> ELSE <<"/", "B">>)]],
                    FullColumn>>] :
       t \in {"FLOAT", "BYTE_ARRAY", "INT96"}}

\* files for the frame of the queries: prims /A and /B in any rows, a field
\* column of a read, a differently read and an unread physical type
FrameFiles ==
    {[exists |-> TRUE, corruptAt |-> -1, numRows |-> RowCounts,
      schema |-> <<Column("path", "BYTE_ARRAY"), Column("temp", t),
                   Column("mass", "INT32")>>,
      columns |-> <<p, FullColumn, FullColumn>>] :
       t \in {"FLOAT", "BYTE_ARRAY", "INT96"},
       p \in PathColumns({Cell(<<"/", "A">>), Cell(<<"/", "B">>)})}

(***************************************************************************)
(* Sequential callers: ParquetFileFormat::Read, then queries.              *)
(***************************************************************************)
NoQuery == [op |-> "none", path |-> EmptyPath, field |-> "", cached |-> "none",
            has |-> FALSE, ret |-> EmptyValue]

Callers == {1, 2}

InitOn(files) ==
    /\ file \in files
    /\ phase = "closed"
    /\ layerData = FALSE
    /\ pathIndex = EmptyMap
    /\ allPaths = {}
    /\ childrenMap = EmptyMap
    /\ propertyNames = <<>>
    /\ blockCache = EmptyMap
    /\ reads = EmptyMap
    /\ last = NoQuery
    /\ pc = [c \in Callers |-> "idle"]
    /\ req = [c \in Callers |-> NoQuery]
    /\ local = [c \in Callers |-> EmptyValue]

\* a Read that ignores what Open returned
SetsLayerDataAlways(opened) == TRUE

\* whether Read hands the store to the layer, given what Open returned
SetsLayerData(opened) == opened.ok

\* ParquetFileFormat::Read: InitData, Open, and _SetLayerData on success.
\* An Open whose hierarchy walk never ends never returns.
Read ==
    /\ phase = "closed"
    /\ LET opened == Open(file)
       IN  /\ pathIndex' = opened.pathIndex
           /\ propertyNames' = opened.propertyNames
           /\ allPaths' = opened.allPaths
           /\ childrenMap' = opened.childrenMap
           /\ phase' = IF ~opened.terminated THEN "hung"
                       ELSE IF opened.ok THEN "open" ELSE "failed"
           /\ layerData' = (opened.terminated /\ SetsLayerData(opened))
    /\ UNCHANGED <<file, blockCache, reads, last, pc, req, local>>

\* the host queries only the data object its layer holds
Serving == layerData /\ phase \in {"open", "failed"}

\* whether Get(path, field) reaches _LoadBlock
NeedsBlock(path, field) ==
    /\ field \in {"default", "typeName"}
    /\ IsPropertyPath(path)
    /\ GetPrimPath(path) \in DOMAIN pathIndex
    /\ HasProperty(propertyNames, GetNameToken(path))

\* the (field, rowGroup) pair Get(path, ...) needs
BlockOf(path) == <<GetNameToken(path), pathIndex[GetPrimPath(path)].rowGroup>>

\* how _LoadBlock found the pair when the query began
CacheStatus(path, field) ==
    IF ~NeedsBlock(path, field) THEN "none"
    ELSE IF BlockOf(path) \in DOMAIN blockCache THEN "hit" ELSE "miss"

QueryHasSpec(path) ==
    /\ Serving
    /\ last' = [op |-> "HasSpec", path |-> path, field |-> "", cached |-> "none",
                has |-> FALSE,
                ret |-> ScalarValue("bool", IF HasSpec(path) THEN 1 ELSE 0)]
    /\ UNCHANGED <<file, phase, layerData, pathIndex, allPaths, childrenMap,
                   propertyNames, blockCache, reads, pc, req, local>>

QueryGetSpecType(path) ==
    /\ Serving
    /\ last' = [op |-> "GetSpecType", path |-> path, field |-> "",
                cached |-> "none", has |-> FALSE,
                ret |-> TokenValue("SdfSpecType", GetSpecType(path))]
    /\ UNCHANGED <<file, phase, layerData, pathIndex, allPaths, childrenMap,
                   propertyNames, blockCache, reads, pc, req, local>>

QueryGet(path, field) ==
    /\ Serving
    /\ \E o \in Get(path, field) :
          /\ last' = [op |-> "Get", path |-> path, field |-> field,
                      cached |-> CacheStatus(path, field), has |-> FALSE,
                      ret |-> o.ret]
          /\ blockCache' = o.cache
          /\ reads' = o.reads
          /\ phase' = IF o.crashed THEN "crashed" ELSE phase
    /\ UNCHANGED <<file, layerData, pathIndex, allPaths, childrenMap,
                   propertyNames, pc, req, local>>

QueryHas(path, field) ==
    /\ Serving
    /\ \E o \in Has(path, field) :
          /\ last' = [op |-> "Has", path |-> path, field |-> field,
                      cached |-> CacheStatus(path, field), has |-> o.has,
                      ret |-> o.ret]
          /\ blockCache' = o.cache
          /\ reads' = o.reads
          /\ phase' = IF o.crashed THEN "crashed" ELSE phase
    /\ UNCHANGED <<file, layerData, pathIndex, allPaths, childrenMap,
                   propertyNames, pc, req, local>>

QueryList(path) ==
    /\ Serving
    /\ last' = [op |-> "List", path |-> path, field |-> "", cached |-> "none",
                has |-> FALSE, ret |-> TokenArrayValue(List(path))]
    /\ UNCHANGED <<file, phase, layerData, pathIndex, allPaths, childrenMap,
                   propertyNames, blockCache, reads, pc, req, local>>

\* paths the host asks about
QueryPaths ==
    {AbsoluteRootPath, PrimPath(<<"A">>), PrimPath(<<"A", "B">>), PrimPath(<<"B">>),
     PrimPath(<<"DoesNotExist">>),
     AppendProperty(PrimPath(<<"A">>), "temp"),
     AppendProperty(PrimPath(<<"B">>), "mass"),
     AppendProperty(PrimPath(<<"A">>), "DoesNotExist"),
     AppendProperty(PrimPath(<<"DoesNotExist">>), "temp")}

\* field paths of the value queries
ValuePaths ==
    {AppendProperty(PrimPath(<<"A">>), "temp"), AppendProperty(PrimPath(<<"B">>), "temp"),
     AppendProperty(PrimPath(<<"A">>), "mass")}

ValueFields == {"default", "typeName"}

\* structural and value queries on any path column
Init == InitOn(StructFiles)

Next ==
    \/ Read
    \/ \E path \in QueryPaths : QueryHasSpec(path)
    \/ \E path \in QueryPaths : QueryGetSpecType(path)
    \/ \E path \in QueryPaths, field \in Fields : QueryGet(path, field)

Spec == Init /\ [][Next]_vars

\* open and the existence/kind queries on any path column
NextOpen ==
    \/ Read
    \/ \E path \in QueryPaths : QueryHasSpec(path)
    \/ \E path \in QueryPaths : QueryGetSpecType(path)

SpecOpen == Init /\ [][NextOpen]_vars

\* value and type queries on field columns of any type, with nulls
InitValue == InitOn(ValueFiles)

NextValue ==
    \/ Read
    \/ \E path \in ValuePaths, field \in ValueFields : QueryGet(path, field)
    \/ \E path \in ValuePaths, field \in ValueFields : QueryHas(path, field)

SpecValue == InitValue /\ [][NextValue]_vars

\* open and the children listings, through Get and Has, on any path column
NextChildren ==
    \/ Read
    \/ \E path \in QueryPaths : QueryGet(path, "primChildren")
    \/ \E path \in QueryPaths : QueryHas(path, "primChildren")

SpecChildren == Init /\ [][NextChildren]_vars

\* paths of the frame: the root, a prim, fields of two prims, unknown paths
FramePaths ==
    {AbsoluteRootPath, PrimPath(<<"A">>), PrimPath(<<"DoesNotExist">>),
     AppendProperty(PrimPath(<<"A">>), "temp"),
     AppendProperty(PrimPath(<<"B">>), "mass"),
     AppendProperty(PrimPath(<<"A">>), "DoesNotExist"),
     AppendProperty(PrimPath(<<"A">>), "path"),
     AppendProperty(PrimPath(<<"DoesNotExist">>), "temp")}

\* every query, with every selector, on known and unknown paths
InitFrame == InitOn(FrameFiles)

NextFrame ==
    \/ Read
    \/ \E path \in FramePaths : QueryHasSpec(path)
    \/ \E path \in FramePaths : QueryGetSpecType(path)
    \/ \E path \in FramePaths : QueryList(path)
    \/ \E path \in FramePaths, field \in Fields : QueryGet(path, field)
    \/ \E path \in FramePaths, field \in Fields : QueryHas(path, field)

SpecFrame == InitFrame /\ [][NextFrame]_vars

(***************************************************************************)
(* Concurrent callers.  The class holds no lock: Get and _LoadBlock of two  *)
(* callers interleave at their reads and writes of _blockCache.            *)
(***************************************************************************)
Pair(c) == BlockOf(req[c].path)

\* Get up to the call of _LoadBlock: the path names a field of a data prim
Begin(c, path, field) ==
    /\ Serving /\ phase = "open"
    /\ pc[c] = "idle"
    /\ NeedsBlock(path, field)
    /\ req' = [req EXCEPT ![c] = [op |-> "Get", path |-> path, field |-> field,
                                  cached |-> "none", has |-> FALSE,
                                  ret |-> EmptyValue]]
    /\ pc' = [pc EXCEPT ![c] = "check"]
    /\ UNCHANGED <<file, phase, layerData, pathIndex, allPaths, childrenMap,
                   propertyNames, blockCache, reads, last, local>>

\* _LoadBlock: if (_blockCache[field].count(rowGroup)) return; and the
\* schema and type dispatch that follow
CheckCache(c) ==
    /\ phase = "open"
    /\ pc[c] = "check"
    /\ LET hit == Cached(blockCache, Pair(c)[1], Pair(c)[2])
       IN  /\ req' = [req EXCEPT ![c].cached = IF hit THEN "hit" ELSE "miss"]
           /\ pc' = [pc EXCEPT ![c] =
                        IF hit \/ ~Readable(file, Pair(c)[1]) THEN "index" ELSE "read"]
    /\ UNCHANGED <<file, phase, layerData, pathIndex, allPaths, childrenMap,
                   propertyNames, blockCache, reads, last, local>>

\* _LoadBlock: ReadBatch into the caller's own array
ReadColumn(c) ==
    /\ phase = "open"
    /\ pc[c] = "read"
    /\ local' = [local EXCEPT ![c] = DecodeBlock(file, Pair(c)[1], Pair(c)[2])]
    /\ reads' = MapPut(reads, Pair(c), ReadCount(reads, Pair(c)[1], Pair(c)[2]) + 1)
    /\ pc' = [pc EXCEPT ![c] = "insert"]
    /\ UNCHANGED <<file, phase, layerData, pathIndex, allPaths, childrenMap,
                   propertyNames, blockCache, last, req>>

\* _blockCache[field][rowGroup] = ...: operator[] default-constructs the entry
InsertEntry(c) ==
    /\ phase = "open"
    /\ pc[c] = "insert"
    /\ blockCache' = TouchBlock(blockCache, Pair(c)[1], Pair(c)[2])
    /\ pc' = [pc EXCEPT ![c] = "assign"]
    /\ UNCHANGED <<file, phase, layerData, pathIndex, allPaths, childrenMap,
                   propertyNames, reads, last, req, local>>

\* ... = VtValue(data): the entry receives the decoded array
AssignEntry(c) ==
    /\ phase = "open"
    /\ pc[c] = "assign"
    /\ blockCache' = MapPut(blockCache, Pair(c), local[c])
    /\ local' = [local EXCEPT ![c] = EmptyValue]
    /\ pc' = [pc EXCEPT ![c] = "index"]
    /\ UNCHANGED <<file, phase, layerData, pathIndex, allPaths, childrenMap,
                   propertyNames, reads, last, req>>

\* Get after _LoadBlock: read the block and return
ReturnValue(c) ==
    /\ phase = "open"
    /\ pc[c] = "index"
    /\ \E o \in ReadFromBlock(req[c].field, Pair(c)[1],
                              pathIndex[GetPrimPath(req[c].path)], blockCache, reads) :
          /\ last' = [req[c] EXCEPT !.ret = o.ret]
          /\ blockCache' = o.cache
          /\ phase' = IF o.crashed THEN "crashed" ELSE phase
    /\ req' = [req EXCEPT ![c] = NoQuery]
    /\ pc' = [pc EXCEPT ![c] = "idle"]
    /\ UNCHANGED <<file, layerData, pathIndex, allPaths, childrenMap,
                   propertyNames, reads, local>>

\* a caller about to write the std::map while another is about to read or
\* write it is a data race: besides the interleavings, the process may die
RaceCrash ==
    /\ phase = "open"
    /\ \E c1 \in Callers : \E c2 \in Callers \ {c1} :
          /\ pc[c1] \in {"insert", "assign"}
          /\ pc[c2] \in {"check", "insert", "assign", "index"}
    /\ phase' = "crashed"
    /\ UNCHANGED <<file, layerData, pathIndex, allPaths, childrenMap,
                   propertyNames, blockCache, reads, last, pc, req, local>>

\* field paths and selectors of the concurrent callers
ConcPaths == {AppendProperty(PrimPath(<<n>>), "temp") : n \in {"A", "B"}}

ConcFields == {"default", "typeName"}

InitConc == InitOn(ConcFiles)

NextConc ==
    \/ Read
    \/ \E c \in Callers, path \in ConcPaths, field \in ConcFields : Begin(c, path, field)
    \/ \E c \in Callers : CheckCache(c)
    \/ \E c \in Callers : ReadColumn(c)
    \/ \E c \in Callers : InsertEntry(c)
    \/ \E c \in Callers : AssignEntry(c)
    \/ \E c \in Callers : ReturnValue(c)
    \/ RaceCrash

SpecConc == InitConc /\ [][NextConc]_vars

(***************************************************************************)
(* Ground truth read off the file, independently of Open.                  *)
(***************************************************************************)
\* the path column as the file's writer numbered it
TruePathColumn == file.columns[PathColIdx(file)]

\* the rows whose path cell holds the string of path p
Occurrences(p) ==
    {x \in Rows : /\ ~TruePathColumn[x[1]][x[2]].null
                  /\ SdfPath(TruePathColumn[x[1]][x[2]].v) = p}

\* the well-formed absolute paths that occur in the path column
AbsolutePathsInFile ==
    {p \in {SdfPath(str) : str \in PathStrings} :
        IsAbsolutePath(p) /\ Occurrences(p) # {}}

\* scan order: row group, then row
ScansBefore(x, y) == x[1] < y[1] \/ (x[1] = y[1] /\ x[2] < y[2])

\* the last row, in scan order, that holds p
LastOccurrence(p) ==
    CHOOSE x \in Occurrences(p) : \A y \in Occurrences(p) \ {x} : ScansBefore(y, x)

\* the strict ancestors of a path below the root
StrictAncestors(p) ==
    {PrimPath(SubSeq(p.prim, 1, k)) : k \in 1..(Len(p.prim) - 1)}
    \cup (IF p.prop # <<>> /\ p.prim # <<>> THEN {GetPrimPath(p)} ELSE {})

\* the path parent/child
AppendChild(parent, child) == [parent EXCEPT !.prim = Append(parent.prim, child)]

\* a path that names nothing in the store
UnknownPath(path) ==
    /\ path # AbsoluteRootPath
    /\ path \notin allPaths
    /\ ~(/\ IsPropertyPath(path)
         /\ GetPrimPath(path) \in DOMAIN pathIndex
         /\ HasProperty(propertyNames, GetNameToken(path)))

\* the children sequence Get(parent, primChildren) returns
ChildrenOf(parent) == (CHOOSE o \in Get(parent, "primChildren") : TRUE).ret.toks

(***************************************************************************)
(* Claims.                                                                 *)
(***************************************************************************)
\* C5: on a path that is not the root, not in All-Nodes and not a field path
\* of an indexed node with a cataloged field, HasSpec returns false,
\* GetSpecType returns Unknown and Get returns an empty value for every
\* field selector, the children-listing selector included.
C5_UnknownPathAbsent ==
    (last.op # "none" /\ UnknownPath(last.path)) =>
        CASE last.op = "HasSpec"     -> last.ret = ScalarValue("bool", 0)
          [] last.op = "GetSpecType" ->
                last.ret = TokenValue("SdfSpecType", "SdfSpecTypeUnknown")
          [] OTHER                   -> IsEmpty(last.ret)

\* C6: after a successful open, HasSpec is true and GetSpecType is the prim
\* kind for every path accepted into the index, whatever its form.
C6_IndexedArePrims ==
    (phase = "open" /\ last.path \in DOMAIN pathIndex) =>
        /\ last.op = "HasSpec" => last.ret = ScalarValue("bool", 1)
        /\ last.op = "GetSpecType" =>
              last.ret = TokenValue("SdfSpecType", "SdfSpecTypePrim")

\* C7: after a successful open, the children sequence of a parent contains a
\* child name exactly when parent/child is in All-Nodes, each name at most
\* once, and a path is a key of the Children Map iff it has a child in
\* All-Nodes.
C7_ChildrenMatchAllNodes ==
    phase = "open" =>
        /\ \A parent \in allPaths \cup QueryPaths : \A child \in NameSet :
              (child \in SeqRange(ChildrenOf(parent)))
                 <=> (AppendChild(parent, child) \in allPaths)
        /\ \A parent \in DOMAIN childrenMap :
              Cardinality(SeqRange(childrenMap[parent])) = Len(childrenMap[parent])
        /\ \A parent \in allPaths \cup QueryPaths :
              (parent \in DOMAIN childrenMap)
                 <=> (\E child \in NameSet : AppendChild(parent, child) \in allPaths)

\* C8: after a successful open, All-Nodes contains every indexed path and,
\* with each of its paths, every strict ancestor other than the root; the
\* upward walk ends at the root for every indexed path (Open returns).
C8_AncestorsClosed ==
    /\ phase # "hung"
    /\ phase = "open" =>
          /\ DOMAIN pathIndex \subseteq allPaths
          /\ \A p \in allPaths : StrictAncestors(p) \subseteq allPaths

\* C8 witness: /A/B is indexed, its parent /A is not, and /A was synthesised
C8_Witness ==
    /\ phase = "open"
    /\ PrimPath(<<"A", "B">>) \in DOMAIN pathIndex
    /\ PrimPath(<<"A">>) \notin DOMAIN pathIndex
    /\ PrimPath(<<"A">>) \in allPaths

\* C9: after a successful open, the Path Index holds exactly the well-formed
\* absolute paths of the path column, each mapped to the block and row
\* offset of its last occurrence in scan order, the block existing and the
\* offset below the block's row count.
C9_IndexIsLastOccurrence ==
    phase = "open" =>
        /\ DOMAIN pathIndex = AbsolutePathsInFile
        /\ \A p \in DOMAIN pathIndex :
              /\ pathIndex[p].rowGroup = LastOccurrence(p)[1] - 1
              /\ pathIndex[p].rowOffset = LastOccurrence(p)[2] - 1
              /\ pathIndex[p].rowGroup \in 0..(NumRowGroups(file) - 1)
              /\ pathIndex[p].rowOffset < NumRows(file, pathIndex[p].rowGroup)

\* whether open must fail on the file
MustFail == ~file.exists \/ PathColIdx(file) = 0 \/ file.corruptAt >= 0

\* C10: if open fails (missing file, no path column, decode exception while
\* scanning the path column) Read returns failure and hands no store to the
\* layer, and no query runs on it; a store that is handed over has its index
\* and hierarchy complete.
C10_NoPartialStore ==
    /\ (phase # "closed" /\ MustFail) => (phase = "failed" /\ ~layerData)
    /\ phase = "failed" => (~layerData /\ last = NoQuery)
    /\ last # NoQuery => layerData
    /\ layerData =>
          /\ ~MustFail
          /\ AbsolutePathsInFile \subseteq DOMAIN pathIndex
          /\ DOMAIN pathIndex \subseteq allPaths
          /\ \A p \in allPaths \ {AbsoluteRootPath} :
                /\ GetParentPath(p) \in DOMAIN childrenMap
                /\ GetNameToken(p) \in SeqRange(childrenMap[GetParentPath(p)])

\* C10 witness: open failed on a decode exception after indexing a row
\* group; the partial index was never handed over
C10_Witness ==
    /\ phase = "failed"
    /\ file.corruptAt = 1
    /\ pathIndex # EmptyMap
    /\ ~layerData

\* the cell of column field at the row the file holds path p at
StoredCell(p, field) ==
    file.columns[ColIdxOf(file, field)][LastOccurrence(p)[1]][LastOccurrence(p)[2]]

\* C1: for a data node and a cataloged field f of supported physical type T,
\* Get(node.f, Default) returns the value stored in column f at the node's
\* row, typed as T, and Get(node.f, TypeName) returns the name of T, however
\* often and in whatever order the queries are repeated.
C1_GetRoundTrip ==
    (/\ last.op = "Get"
     /\ NeedsBlock(last.path, last.field)
     /\ Readable(file, GetNameToken(last.path))) =>
        LET node == GetPrimPath(last.path)
            f    == GetNameToken(last.path)
            T    == file.schema[ColIdxOf(file, f)].type
        IN  IF last.field = "typeName"
            THEN last.ret = TokenValue("TfToken", ElementType(T))
            ELSE ~StoredCell(node, f).null =>
                    /\ phase # "crashed"
                    /\ last.ret = ScalarValue(ElementType(T), StoredCell(node, f).v)

\* C2: in a sequential run the batch read of a (field, block) pair is issued
\* at most once: the first value or type query needing the pair reads it and
\* leaves it cached, and every later one is served from the cache.
C2_ReadAtMostOnce ==
    /\ \A k \in DOMAIN reads :
          /\ reads[k] <= 1
          /\ Cached(blockCache, k[1], k[2])
          /\ blockCache[k].type = "VtArray"
    /\ (/\ last.op \in {"Get", "Has"}
        /\ last.cached = "miss"
        /\ Readable(file, GetNameToken(last.path))) =>
          ReadCount(reads, BlockOf(last.path)[1], BlockOf(last.path)[2]) = 1

\* C2 witness: a query found its pair cached by an earlier query's read
C2_Witness ==
    /\ last.op \in {"Get", "Has"}
    /\ last.cached = "hit"
    /\ ReadCount(reads, BlockOf(last.path)[1], BlockOf(last.path)[2]) = 1

\* C3: when callers concurrently need the same not-yet-loaded (field, block)
\* pair, their loads are serialised: the batch read of the pair happens at
\* most once.
C3_ConcurrentReadOnce == \A k \in DOMAIN reads : reads[k] <= 1

\* C4: a concurrent reader that finds the entry of a (field, block) pair
\* present indexes into the complete decoded array of that block, and its
\* query returns what a sequential run returns.
C4_NoHalfFilledEntry ==
    /\ \A c \in Callers :
          (/\ pc[c] = "index"
           /\ req[c].cached = "hit"
           /\ Readable(file, Pair(c)[1])) =>
              blockCache[Pair(c)] = DecodeBlock(file, Pair(c)[1], Pair(c)[2])
    /\ (/\ phase = "open"
        /\ last.op = "Get"
        /\ Readable(file, GetNameToken(last.path))) =>
          last.ret = IF last.field = "typeName"
                     THEN TokenValue("TfToken",
                             ElementType(file.schema[ColIdxOf(file, GetNameToken(last.path))].type))
                     ELSE ScalarValue(
                             ElementType(file.schema[ColIdxOf(file, GetNameToken(last.path))].type),
                             StoredCell(GetPrimPath(last.path), GetNameToken(last.path)).v)

\* the indexed paths whose upward walk registers name under parent
Contributors(parent, name) ==
    {p \in DOMAIN pathIndex :
        \E c \in (StrictAncestors(p) \cup {p}) \ {AbsoluteRootPath} :
           GetParentPath(c) = parent /\ GetNameToken(c) = name}

\* the first row of the file, in scan order, that contributes name to parent
FirstRow(parent, name) ==
    LET rows == UNION {Occurrences(p) : p \in Contributors(parent, name)}
    IN  CHOOSE x \in rows : \A y \in rows \ {x} : ScansBefore(x, y)

\* the least key of the Path Index that contributes name to parent
FirstKey(parent, name) ==
    LET keys == Contributors(parent, name)
    IN  CHOOSE p \in keys : \A q \in keys \ {p} : PathLess(p, q)

\* the place of a name in a children sequence
Position(seq, name) == CHOOSE i \in 1..Len(seq) : seq[i] = name

\* a children listing was answered on an opened store
ListedChildren ==
    /\ phase = "open"
    /\ last.op \in {"Get", "Has"}
    /\ last.field = "primChildren"
    /\ last.ret.type = "VtTokenArray"

\* C11 as stated: the children of a parent are listed in the order in which
\* the rows that first contribute them were scanned (block, then row): if
\* X's first contributing row precedes Y's, X precedes Y in the listing.
C11_ChildrenInFileOrder ==
    ListedChildren =>
        \A X \in SeqRange(last.ret.toks) : \A Y \in SeqRange(last.ret.toks) \ {X} :
           ScansBefore(FirstRow(last.path, X), FirstRow(last.path, Y))
              => Position(last.ret.toks, X) < Position(last.ret.toks, Y)

\* C11 amended: the children of a parent are listed in the order in which
\* the keys of the Path Index that first contribute them are iterated, which
\* is the order of SdfPath keys and not the order of rows: X precedes Y in
\* the listing exactly when the least indexed path under X is less than the
\* least indexed path under Y.
C11_ChildrenInIndexOrder ==
    ListedChildren =>
        \A X \in SeqRange(last.ret.toks) : \A Y \in SeqRange(last.ret.toks) \ {X} :
           PathLess(FirstKey(last.path, X), FirstKey(last.path, Y))
              <=> Position(last.ret.toks, X) < Position(last.ret.toks, Y)

\* C11 witness: the root's children were listed as A, B although the row of
\* /B (or of a path below it) precedes every row that contributes A
C11_Witness ==
    /\ ListedChildren
    /\ last.path = AbsoluteRootPath
    /\ last.ret.toks = <<"A", "B">>
    /\ ScansBefore(FirstRow(AbsoluteRootPath, "B"), FirstRow(AbsoluteRootPath, "A"))

\* the columns of the file other than the path column
FieldColumns == {file.schema[i].name : i \in 1..Len(file.schema)} \ {"path"}

\* a value or type query on a field of a node the file holds
IsValueQuery(q) ==
    /\ q.op \in {"Get", "Has"}
    /\ q.field \in {"default", "typeName"}
    /\ IsPropertyPath(q.path)
    /\ Occurrences(GetPrimPath(q.path)) # {}
    /\ GetNameToken(q.path) \in FieldColumns

\* the field the query names and the block the file holds its node in
QueriedPair(q) ==
    <<GetNameToken(q.path), LastOccurrence(GetPrimPath(q.path))[1] - 1>>

\* a step that reads a column or changes the Block Cache answers a value or
\* type query and touches the queried pair only
ReadsOnlyQueriedPair ==
    (reads' # reads \/ blockCache' # blockCache) =>
        /\ IsValueQuery(last')
        /\ \A k \in DOMAIN reads' \cup DOMAIN blockCache' :
              k # QueriedPair(last') =>
                 /\ ReadCount(reads', k[1], k[2]) = ReadCount(reads, k[1], k[2])
                 /\ k \in DOMAIN blockCache
                 /\ blockCache'[k] = blockCache[k]

\* every read and every Block Cache entry is of a field column and of a
\* block that holds an indexed node
EntriesAreQueriedPairs ==
    /\ DOMAIN reads \subseteq DOMAIN blockCache
    /\ \A k \in DOMAIN blockCache :
          /\ k[1] \in FieldColumns
          /\ \E p \in AbsolutePathsInFile : LastOccurrence(p)[1] - 1 = k[2]

\* C12: after open, a (field, block) pair is read only by a value or type
\* query on a field path whose container is an indexed node of that block
\* and whose name is that field; HasSpec, GetSpecType, List, the children
\* and property listings, specifier, variability, custom and queries on
\* unknown paths read nothing, so every Block Cache entry is such a pair.
C12_ReadsOnlyOnValueQuery ==
    [](phase = "open" => EntriesAreQueriedPairs) /\ [][ReadsOnlyQueriedPair]_vars

\* C12 witness: structural queries and queries on unknown paths were
\* answered after a value query read its pair, and that pair is still the
\* only one read and cached
C12_Witness ==
    /\ phase = "open"
    /\ last.op \in {"List", "HasSpec", "GetSpecType"} \/ ~IsValueQuery(last)
    /\ last.op # "none"
    /\ Cardinality(DOMAIN reads) = 1
    /\ DOMAIN blockCache = DOMAIN reads

\* C13: whenever a value query indexes into the cached decoded array of its
\* (field, block) pair, the row offset of the queried node is below the
\* array's length, for every supported column type and every count the
\* reader returns for the field column and for the path column, a field
\* column with fewer values than the block has rows included.
C13_OffsetWithinBlock ==
    (/\ last.op \in {"Get", "Has"}
     /\ last.field = "default"
     /\ NeedsBlock(last.path, last.field)
     /\ Cached(blockCache, BlockOf(last.path)[1], BlockOf(last.path)[2])
     /\ blockCache[BlockOf(last.path)].type = "VtArray") =>
        pathIndex[GetPrimPath(last.path)].rowOffset
           < Len(blockCache[BlockOf(last.path)].data)

\* C14: Has and Get agree on every path and selector: Has returns true
\* exactly when Get returns a non-empty value, and the value Has stores is
\* the value Get returns, the children listing of leaf and unknown paths and
\* the type name of field paths included.
C14_HasAgreesWithGet ==
    (last.op = "Has" /\ phase # "crashed") =>
        \E o \in Get(last.path, last.field) :
           /\ last.has <=> ~IsEmpty(o.ret)
           /\ last.has => last.ret = o.ret

====
